---------------------------- MODULE Spec2Model ----------------------------
(***************************************************************************)
(* ISA Plug and Play controller of 86Box (src/device/isapnp.c).            *)
(*                                                                         *)
(* The controller (isapnp_t), its cards (isapnp_card_t) and their logical  *)
(* devices (isapnp_device_t) are the state; the three port handlers        *)
(* isapnp_write_addr, isapnp_write_data and isapnp_read_data are the       *)
(* actions.  Each handler is a pure operator from a controller record to   *)
(* a controller record, translated branch by branch from the C source.     *)
(* Pointers are indices: a card is its position in the card list (0 is     *)
(* NULL), a logical device is the pair <<card, position>> (<<>> is NULL).  *)
(* Arrays keep the source's 0-based indices.                               *)
(***************************************************************************)
EXTENDS Integers, Sequences, FiniteSets, TLC

VARIABLES
    reg,              \* isapnp_t.reg
    key_pos,          \* isapnp_t.key_pos (5-bit field)
    read_data_addr,   \* isapnp_t.read_data_addr
    isolated_card,    \* isapnp_t.isolated_card
    current_ld_card,  \* isapnp_t.current_ld_card
    current_ld,       \* isapnp_t.current_ld
    cards,            \* the list hanging off isapnp_t.first_card
    io_handlers,      \* handlers registered with the I/O dispatch substrate
    ret,              \* value returned by the last read of the read-data port
    calls,            \* callbacks invoked by the last port access, in order
    fatal,            \* fatal() has been called
    op,               \* the last port access: which port, register index, value
    iso_reads,        \* per card: isolation half-reads it has served
    reads_since_wake  \* per card: half-reads served since a Wake took it out of SLEEP

vars == <<reg, key_pos, read_data_addr, isolated_card, current_ld_card,
          current_ld, cards, io_handlers, ret, calls, fatal, op, iso_reads,
          reads_since_wake>>

-----------------------------------------------------------------------------
(* Bytes and bit operations                                                *)

Byte == 0..255

Bit(v, k) == (v \div (2 ^ k)) % 2

NULL == 0
NULL_LD == <<>>

-----------------------------------------------------------------------------
(* Program constants                                                       *)

PNP_STATE_WAIT_FOR_KEY == 0
PNP_STATE_CONFIG == 1
PNP_STATE_ISOLATION == 2
PNP_STATE_SLEEP == 3

ISAPNP_DMA_DISABLED == 4

pnp_init_key ==
    [i \in 0..31 |->
        << 106, 181, 218, 237, 246, 251, 125, 190,
           223, 111,  55,  27,  13, 134, 195,  97,
           176,  88,  44,  22, 139,  69, 162, 209,
           232, 116,  58, 157, 206, 231, 115,  57 >>[i + 1]]

-----------------------------------------------------------------------------
(* uint8_t regs[256] of a logical device.  The array is kept as the        *)
(* function from the indices of its non-zero bytes to those bytes: every   *)
(* index outside the domain holds 0, and a byte written as 0 leaves the    *)
(* domain, so that equal arrays are equal functions.                       *)

ZeroRegs == [r \in {} |-> 0]

Reg(regs, r) == IF r \in DOMAIN regs THEN regs[r] ELSE 0

SetReg(regs, r, v) ==
    IF v = 0 THEN [x \in DOMAIN regs \ {r} |-> regs[x]]
    ELSE [x \in DOMAIN regs \cup {r} |-> IF x = r THEN v ELSE regs[x]]

-----------------------------------------------------------------------------
(* isapnp_device_config_t and its translation from the registers           *)

\* A uint32_t as its two 16-bit halves: the value is hi * 65536 + lo.
U32(hi, lo) == [hi |-> hi, lo |-> lo]

\* a variant: a subtraction that drops the borrow
Sub32_NoBorrow(a, b) ==
    U32((a.hi + 65536 - b.hi) % 65536, (a.lo + 65536 - b.lo) % 65536)

\* a - b in uint32_t arithmetic
Sub32(a, b) ==
    LET borrow == IF a.lo < b.lo THEN 1 ELSE 0
    IN  U32((a.hi + 65536 - b.hi - borrow) % 65536,
            (a.lo + 65536 - b.lo) % 65536)

Mem24Base(i) == 64 + (8 * i)
Mem32Base(i) == IF i = 0 THEN 118 ELSE 128 + (16 * i)

\* the body of isapnp_device_config_changed that fills card->config
ConfigOf(regs) ==
    [activate |-> Reg(regs, 48) % 2,
     mem   |-> [i \in 0..3 |->
                 LET rb   == Mem24Base(i)
                     base == U32(Reg(regs, rb), Reg(regs, rb + 1) * 256)
                     size == U32(Reg(regs, rb + 3), Reg(regs, rb + 4) * 256)
                 IN  [base |-> base,
                      size |-> IF Reg(regs, rb + 2) % 2 = 1
                               THEN Sub32(size, base) ELSE size]],
     mem32 |-> [i \in 0..3 |->
                 LET rb   == Mem32Base(i)
                     base == U32(Reg(regs, rb) * 256 + Reg(regs, rb + 1),
                                 Reg(regs, rb + 2) * 256 + Reg(regs, rb + 3))
                     size == U32(Reg(regs, rb + 5) * 256 + Reg(regs, rb + 6),
                                 Reg(regs, rb + 7) * 256 + Reg(regs, rb + 8))
                 IN  [base |-> base,
                      size |-> IF Reg(regs, rb + 4) % 2 = 1
                               THEN Sub32(size, base) ELSE size]],
     io    |-> [i \in 0..7 |->
                 [base |-> Reg(regs, 96 + 2 * i) * 256 + Reg(regs, 96 + 2 * i + 1)]],
     irq   |-> [i \in 0..1 |->
                 [irq   |-> Reg(regs, 112 + 2 * i),
                  level |-> 2 * Bit(Reg(regs, 112 + 2 * i + 1), 1),
                  type  |-> Reg(regs, 112 + 2 * i + 1) % 2]],
     dma   |-> [i \in 0..1 |-> [dma |-> Reg(regs, 116 + i)]]]

-----------------------------------------------------------------------------
(* isapnp_reset_ld_regs                                                    *)

\* regs[r] |= !!(upperlimit & (1 << k))
OrUpperLimit(regs, r, upperlimit, k) ==
    IF Bit(upperlimit, k) = 1
    THEN SetReg(regs, r, Reg(regs, r) + 1 - (Reg(regs, r) % 2))
    ELSE regs

ResetRegs(upperlimit) ==
    LET r0 == SetReg(SetReg(ZeroRegs, 116, ISAPNP_DMA_DISABLED),
                     117, ISAPNP_DMA_DISABLED)
        r1 == OrUpperLimit(r0, 66, upperlimit, 0)
        r2 == OrUpperLimit(r1, 74, upperlimit, 1)
        r3 == OrUpperLimit(r2, 82, upperlimit, 2)
        r4 == OrUpperLimit(r3, 90, upperlimit, 3)
        r5 == OrUpperLimit(r4, 122, upperlimit, 4)
        r6 == OrUpperLimit(r5, 148, upperlimit, 5)
        r7 == OrUpperLimit(r6, 164, upperlimit, 6)
    IN  OrUpperLimit(r7, 180, upperlimit, 7)

\* a variant: a reset that keeps the activation register
isapnp_reset_ld_regs_KeepsActivate(ld) ==
    [ld EXCEPT !.regs = SetReg(ResetRegs(ld.upperlimit), 48, Reg(ld.regs, 48))]

isapnp_reset_ld_regs(ld) == [ld EXCEPT !.regs = ResetRegs(ld.upperlimit)]

-----------------------------------------------------------------------------
(* isapnp_add_card: ROM checksum and resource parser                       *)

SetBit(v, k) == IF Bit(v, k) = 1 THEN v ELSE v + 2 ^ k
ClearBit(v, k) == IF Bit(v, k) = 1 THEN v - 2 ^ k ELSE v

RECURSIVE SumBytes(_, _, _)
SumBytes(rom, from, to) ==
    IF from >= to THEN 0
    ELSE IF to = from + 1 THEN rom[from]
    ELSE LET mid == (from + to) \div 2
         IN  (SumBytes(rom, from, mid) + SumBytes(rom, mid, to)) % 256

\* rom[checksum_offset] = -(rom[9] + ... + rom[checksum_offset - 1]), as uint8_t
PopulateChecksum(rom, rom_size) ==
    [rom EXCEPT ![rom_size - 1] = (256 - SumBytes(rom, 9, rom_size - 1)) % 256]

NewLd(number) ==
    [number |-> number, regs |-> ZeroRegs, upperlimit |-> 0]

ParseInit ==
    [i |-> 9, ldn |-> 0, in_df |-> 0,
     mem_range |-> 0, mem_range_32 |-> 0,
     mem_range_df |-> 0, mem_range_32_df |-> 0,
     lds |-> <<>>, err |-> ""]

\* case 0x01 / case 0x05 of a large resource: one memory range descriptor
ParseMemRange(rom, p, res) ==
    LET range == IF res = 1 THEN p.mem_range ELSE p.mem_range_32
        mask  == IF res = 1 THEN range ELSE 4 + range
        n     == Len(p.lds)
    IN  IF range > 3 THEN [p EXCEPT !.err = "overflow"]
        ELSE IF n = 0 THEN [p EXCEPT !.err = "null ld"]
        ELSE [p EXCEPT
                !.mem_range       = IF res = 1 THEN @ + 1 ELSE @,
                !.mem_range_df    = IF res = 1 /\ p.in_df = 0 THEN @ + 1 ELSE @,
                !.mem_range_32    = IF res = 5 THEN @ + 1 ELSE @,
                !.mem_range_32_df = IF res = 5 /\ p.in_df = 0 THEN @ + 1 ELSE @,
                !.lds[n].upperlimit =
                    IF Bit(rom[p.i + 3], 2) = 1
                    THEN SetBit(@, mask) ELSE ClearBit(@, mask)]

\* one iteration of the while (i < card->rom_size) loop
ParseStep(rom, rom_size, p) ==
    IF rom[p.i] >= 128
    THEN \* large resource
         IF p.i + 2 >= rom_size THEN [p EXCEPT !.err = "overrun"]
         ELSE
         LET res == rom[p.i] % 128
             len == rom[p.i + 2] * 256 + rom[p.i + 1]
             q   == IF res \in {1, 5}
                    THEN IF p.i + 3 >= rom_size
                         THEN [p EXCEPT !.err = "overrun"]
                         ELSE ParseMemRange(rom, p, res)
                    ELSE p
         IN  [q EXCEPT !.i = p.i + 3 + len]
    ELSE \* small resource
         LET res == (rom[p.i] \div 8) % 16
             len == rom[p.i] % 8
             n   == Len(p.lds)
             q   == CASE res = 2 ->
                          [p EXCEPT
                             !.lds = (IF n > 0
                                      THEN [p.lds EXCEPT ![n] = isapnp_reset_ld_regs(@)]
                                      ELSE p.lds) \o <<NewLd(p.ldn)>>,
                             !.ldn = (p.ldn + 1) % 256,
                             !.mem_range = 0, !.mem_range_32 = 0,
                             !.mem_range_df = 0, !.mem_range_32_df = 0]
                      [] res = 6 ->
                          IF p.in_df # 0
                          THEN [p EXCEPT !.mem_range = p.mem_range_df,
                                         !.mem_range_32 = p.mem_range_32_df]
                          ELSE [p EXCEPT !.mem_range_df = p.mem_range,
                                         !.mem_range_32_df = p.mem_range_32,
                                         !.in_df = 1]
                      [] res = 7 -> [p EXCEPT !.in_df = 0]
                      [] OTHER -> p
         IN  [q EXCEPT !.i = p.i + 1 + len]

RECURSIVE ParseRom(_, _, _)
ParseRom(rom, rom_size, p) ==
    IF p.err # "" \/ p.i >= rom_size THEN p
    ELSE ParseRom(rom, rom_size, ParseStep(rom, rom_size, p))

\* The card isapnp_add_card appends to the list; cb names which of the four
\* callbacks the caller registered (a NULL pointer is FALSE).
isapnp_add_card(rom_in, rom_size, cb) ==
    LET rom == PopulateChecksum(rom_in, rom_size)
        p   == ParseRom(rom, rom_size, ParseInit)
        n   == Len(p.lds)
    IN  [state |-> PNP_STATE_WAIT_FOR_KEY, csn |-> 0, id_checksum |-> 0,
         serial_read |-> 0, serial_read_pair |-> 0, serial_read_pos |-> 0,
         rom |-> rom, rom_pos |-> 0, rom_size |-> rom_size,
         config_changed |-> cb.config_changed,
         csn_changed |-> cb.csn_changed,
         read_vendor_reg |-> cb.read_vendor_reg,
         write_vendor_reg |-> cb.write_vendor_reg,
         lds |-> IF n > 0
                 THEN [p.lds EXCEPT ![n] = isapnp_reset_ld_regs(@)]
                 ELSE p.lds,
         parse_err |-> p.err]

\* A ROM image as the array the caller passes: 0-based.
RomOf(bytes) == [i \in 0..(Len(bytes) - 1) |-> bytes[i + 1]]

-----------------------------------------------------------------------------
(* ROM images used as inputs                                               *)

\* small resources: logical device id (length 5), end tag (length 1)
LdTag(flags) == <<21, 65, 66, 67, 68, flags>>
EndTag == <<121, 0>>
StartDf == <<48>>
EndDf == <<56>>
\* large resources: 24-bit memory range (length 9), 32-bit memory range (17);
\* bit 2 of the information byte says the range is given by its upper limit
MemDesc(info) == <<129, 9, 0, info, 0, 0, 0, 0, 0, 0, 0, 0>>
Mem32Desc(info) == <<133, 17, 0, info,
                     0, 0, 0, 0, 0, 0, 0, 0, 0, 0, 0, 0, 0, 0, 0, 0>>

\* 8 identifier bytes, the ID checksum byte (filled in during isolation),
\* then the resource data
MakeRom(id, body) == RomOf(id \o <<0>> \o body \o EndTag)

IdA == <<13, 99, 0, 1, 120, 86, 52, 18>>
IdB == <<14, 140, 240, 15, 1, 0, 0, 128>>
IdC == <<0, 0, 0, 0, 0, 0, 0, 0>>

\* two logical devices: one 24-bit range by upper limit, one by length
BodyA == LdTag(0) \o MemDesc(4) \o LdTag(0) \o MemDesc(0)
\* one logical device with dependent functions and a 32-bit range
BodyB == LdTag(0) \o StartDf \o MemDesc(0) \o StartDf \o MemDesc(4) \o EndDf
         \o Mem32Desc(4)
\* one logical device, one 24-bit range by upper limit
BodyC == LdTag(0) \o MemDesc(4)
\* one logical device, a 24-bit and a 32-bit range, both by upper limit
BodyR == LdTag(0) \o MemDesc(4) \o Mem32Desc(4)

AllCallbacks ==
    [config_changed |-> TRUE, csn_changed |-> TRUE,
     read_vendor_reg |-> TRUE, write_vendor_reg |-> TRUE]
NoCallbacks ==
    [config_changed |-> FALSE, csn_changed |-> FALSE,
     read_vendor_reg |-> FALSE, write_vendor_reg |-> FALSE]

AddRom(id, body, cb) ==
    LET rom == MakeRom(id, body)
    IN  isapnp_add_card(rom, Len(id) + 1 + Len(body) + Len(EndTag), cb)

-----------------------------------------------------------------------------
(* The I/O dispatch substrate: io_sethandler adds one registration of a    *)
(* handler at a port, io_removehandler takes one away if there is one.     *)
(* A registration is <<handler, port, priv>>.                              *)

NoHandlers == [k \in {} |-> 0]

io_sethandler(b, k) ==
    IF k \in DOMAIN b THEN [b EXCEPT ![k] = @ + 1]
    ELSE [x \in DOMAIN b \cup {k} |-> IF x = k THEN 1 ELSE b[x]]

io_removehandler(b, k) ==
    IF k \notin DOMAIN b THEN b
    ELSE IF b[k] = 1 THEN [x \in DOMAIN b \ {k} |-> b[x]]
    ELSE [b EXCEPT ![k] = @ - 1]

ReadDataHandler(addr) == <<"isapnp_read_data", addr, <<>>>>
RangeCheckHandler(addr, ld) == <<"isapnp_read_rangecheck", addr, ld>>

-----------------------------------------------------------------------------
(* The controller as one record, and helpers on it                         *)

State ==
    [reg |-> reg, key_pos |-> key_pos, read_data_addr |-> read_data_addr,
     isolated_card |-> isolated_card, current_ld_card |-> current_ld_card,
     current_ld |-> current_ld, cards |-> cards, io_handlers |-> io_handlers,
     ret |-> ret, calls |-> calls, fatal |-> fatal]

\* the scan "card = dev->first_card; while (card) { if (card->state == st)
\* break; card = card->next; }": the first card in state st, or NULL
FirstInState(cs, st) ==
    LET S == {i \in 1..Len(cs) : cs[i].state = st}
    IN  IF S = {} THEN NULL ELSE CHOOSE i \in S : \A j \in S : i <= j

CHECK_CURRENT_CARD(s) == FirstInState(s.cards, PNP_STATE_CONFIG)

LdOf(s, ld) == s.cards[ld[1]].lds[ld[2]]

\* the pairs <<card, position>> of all logical devices, in card order then
\* device order
RECURSIVE AllLds(_, _)
AllLds(cs, c) ==
    IF c > Len(cs) THEN <<>>
    ELSE [l \in 1..Len(cs[c].lds) |-> <<c, l>>] \o AllLds(cs, c + 1)

-----------------------------------------------------------------------------
(* isapnp_device_config_changed.  card->config is scratch space: it is     *)
(* filled from the registers and handed to the callback at once, and read  *)
(* nowhere else, so the record lives in the logged call only.              *)

isapnp_device_config_changed(s, c, ld) ==
    IF ~s.cards[c].config_changed THEN s
    ELSE LET cfg == ConfigOf(LdOf(s, ld).regs)
         IN  [s EXCEPT
                !.calls = Append(@, [cb |-> "config_changed", card |-> c,
                                     ld |-> LdOf(s, ld).number,
                                     config |-> cfg])]

-----------------------------------------------------------------------------
(* isapnp_set_read_data                                                    *)

\* a variant: the handler at the old address is left registered
isapnp_set_read_data_KeepsOld(s, addr) ==
    IF addr >= 515 /\ addr <= 1023
    THEN [s EXCEPT !.read_data_addr = addr,
                   !.io_handlers = io_sethandler(@, ReadDataHandler(addr))]
    ELSE [s EXCEPT !.read_data_addr = 0]

isapnp_set_read_data(s, addr) ==
    LET s1 == IF s.read_data_addr # 0
              THEN [s EXCEPT
                      !.io_handlers =
                          io_removehandler(@, ReadDataHandler(s.read_data_addr)),
                      !.read_data_addr = 0]
              ELSE s
    IN  IF addr >= 515 /\ addr <= 1023
        THEN [s1 EXCEPT
                !.read_data_addr = addr,
                !.io_handlers = io_sethandler(@, ReadDataHandler(addr))]
        ELSE s1

-----------------------------------------------------------------------------
(* isapnp_write_addr                                                       *)

KeyUnlock(cs) ==
    [i \in 1..Len(cs) |->
        IF cs[i].state = PNP_STATE_WAIT_FOR_KEY
        THEN [cs[i] EXCEPT !.state = PNP_STATE_SLEEP]
        ELSE cs[i]]

\* a variant: a mismatched byte leaves the cursor where it is
KeyMismatch_KeepsCursor(s, val) == s

KeyMismatch(s, val) == [s EXCEPT !.key_pos = 0]

isapnp_write_addr(s, val) ==
    IF Len(s.cards) = 0 THEN s
    ELSE IF s.cards[1].state = PNP_STATE_WAIT_FOR_KEY
    THEN IF val = pnp_init_key[s.key_pos]
         THEN LET kp == (s.key_pos + 1) % 32
              IN  [s EXCEPT !.key_pos = kp,
                            !.cards = IF kp = 0 THEN KeyUnlock(@) ELSE @]
         ELSE KeyMismatch(s, val)
    ELSE [s EXCEPT !.reg = val]

-----------------------------------------------------------------------------
(* isapnp_write_data, case 0x02: Config Control                            *)

\* the loop over every logical device of every card: reset, then notify
RECURSIVE ResetAllLds(_, _, _)
ResetAllLds(s, lds, k) ==
    IF k > Len(lds) THEN s
    ELSE LET c  == lds[k][1]
             l  == lds[k][2]
             s1 == [s EXCEPT !.cards[c].lds[l] = isapnp_reset_ld_regs(@)]
         IN  ResetAllLds(isapnp_device_config_changed(s1, c, lds[k]), lds, k + 1)

\* if (val & 0x01)
ConfigReset(s) ==
    LET s1 == isapnp_set_read_data(s, 0)
        s2 == ResetAllLds(s1, AllLds(s1.cards, 1), 1)
    IN  [s2 EXCEPT !.current_ld = NULL_LD,
                   !.current_ld_card = NULL,
                   !.isolated_card = NULL]

\* a variant: only the first card is returned to WAIT_FOR_KEY
ConfigWaitForKey_FirstCardOnly(s) ==
    [s EXCEPT !.cards[1].state = PNP_STATE_WAIT_FOR_KEY]

\* if (val & 0x02)
ConfigWaitForKey(s) ==
    [s EXCEPT !.cards = [i \in 1..Len(@) |->
                            [@[i] EXCEPT !.state = PNP_STATE_WAIT_FOR_KEY]]]

\* if (val & 0x04)
RECURSIVE ResetCsns(_, _)
ResetCsns(s, c) ==
    IF c > Len(s.cards) THEN s
    ELSE LET s1 == [s EXCEPT !.cards[c].csn = 0]
             s2 == IF s1.cards[c].csn_changed
                   THEN [s1 EXCEPT !.calls =
                            Append(@, [cb |-> "csn_changed", card |-> c,
                                       csn |-> s1.cards[c].csn])]
                   ELSE s1
         IN  ResetCsns(s2, c + 1)

ConfigResetCsn(s) == ResetCsns(s, 1)

\* a variant: the CSN reset (bit 2) is done first
ConfigControl_CsnFirst(s, val) ==
    LET s1 == IF Bit(val, 2) = 1 THEN ConfigResetCsn(s) ELSE s
        s2 == IF Bit(val, 0) = 1 THEN ConfigReset(s1) ELSE s1
    IN  IF Bit(val, 1) = 1 THEN ConfigWaitForKey(s2) ELSE s2

ConfigControl(s, val) ==
    LET s1 == IF Bit(val, 0) = 1 THEN ConfigReset(s) ELSE s
        s2 == IF Bit(val, 1) = 1 THEN ConfigWaitForKey(s1) ELSE s1
    IN  IF Bit(val, 2) = 1 THEN ConfigResetCsn(s2) ELSE s2

-----------------------------------------------------------------------------
(* isapnp_write_data, case 0x03: Wake[CSN]                                 *)

\* a variant: a card whose CSN differs is left in its state
WakeCard_LeavesOthers(card, val) ==
    IF card.csn = val
    THEN [card EXCEPT
            !.rom_pos = 0,
            !.id_checksum = pnp_init_key[0],
            !.state = IF @ = PNP_STATE_SLEEP
                      THEN (IF val = 0 THEN PNP_STATE_ISOLATION
                                       ELSE PNP_STATE_CONFIG)
                      ELSE @]
    ELSE card

WakeCard(card, val) ==
    IF card.csn = val
    THEN [card EXCEPT
            !.rom_pos = 0,
            !.id_checksum = pnp_init_key[0],
            !.state = IF @ = PNP_STATE_SLEEP
                      THEN (IF val = 0 THEN PNP_STATE_ISOLATION
                                       ELSE PNP_STATE_CONFIG)
                      ELSE @]
    ELSE [card EXCEPT !.state = PNP_STATE_SLEEP]

Wake(s, val) ==
    [s EXCEPT !.cards = [i \in 1..Len(@) |-> WakeCard(@[i], val)]]

-----------------------------------------------------------------------------
(* isapnp_write_data, case 0x06: Card Select Number                        *)

\* a variant: the active-isolation reference is kept
SetCsn_KeepsReference(s, val) ==
    IF s.isolated_card # NULL
    THEN LET c == s.isolated_card
         IN  [s EXCEPT
                !.cards[c].csn = val,
                !.calls = IF s.cards[c].csn_changed
                          THEN Append(@, [cb |-> "csn_changed", card |-> c,
                                          csn |-> val])
                          ELSE @,
                !.cards[c].state = PNP_STATE_CONFIG]
    ELSE s

\* a variant: the card that is given a CSN stays in its state
SetCsn_KeepsState(s, val) ==
    LET c == s.isolated_card
    IN  IF c = NULL THEN s
        ELSE LET s1 == [s EXCEPT !.cards[c].csn = val]
                 s2 == IF s1.cards[c].csn_changed
                       THEN [s1 EXCEPT !.calls =
                                Append(@, [cb |-> "csn_changed", card |-> c,
                                           csn |-> val])]
                       ELSE s1
             IN  [s2 EXCEPT !.isolated_card = NULL]

SetCsn(s, val) ==
    IF s.isolated_card # NULL
    THEN LET c == s.isolated_card
         IN  [s EXCEPT
                !.cards[c].csn = val,
                !.calls = IF s.cards[c].csn_changed
                          THEN Append(@, [cb |-> "csn_changed", card |-> c,
                                          csn |-> val])
                          ELSE @,
                !.cards[c].state = PNP_STATE_CONFIG,
                !.isolated_card = NULL]
    ELSE s

-----------------------------------------------------------------------------
(* isapnp_write_data, case 0x07: Logical Device Number                     *)

\* a variant: a device number the card does not have is ignored
SelectLd_NoFatal(s, val) ==
    LET c == CHECK_CURRENT_CARD(s)
        L == IF c = NULL THEN {}
             ELSE {l \in 1..Len(s.cards[c].lds) : s.cards[c].lds[l].number = val}
    IN  IF L = {} THEN s
        ELSE [s EXCEPT !.current_ld_card = c,
                       !.current_ld = <<c, CHOOSE l \in L : TRUE>>]

SelectLd(s, val) ==
    LET c == CHECK_CURRENT_CARD(s)
    IN  IF c = NULL THEN s
        ELSE LET L == {l \in 1..Len(s.cards[c].lds) :
                          s.cards[c].lds[l].number = val}
             IN  IF L = {} THEN [s EXCEPT !.fatal = TRUE]
                 ELSE [s EXCEPT
                         !.current_ld_card = c,
                         !.current_ld = <<c, CHOOSE l \in L : \A m \in L : l <= m>>]

-----------------------------------------------------------------------------
(* isapnp_write_data, cases 0x30, 0x31, vendor registers and default       *)

Activate(s, val) ==
    IF s.current_ld = NULL_LD THEN s
    ELSE LET ld == s.current_ld
             s1 == [s EXCEPT !.cards[ld[1]].lds[ld[2]].regs = SetReg(@, 48, val % 2)]
         IN  isapnp_device_config_changed(s1, s.current_ld_card, ld)

\* the loop for (reg = 0x60; reg <= 0x6e; reg += 2), from slot i on
RECURSIVE RangeCheckLoop(_, _, _, _, _)
RangeCheckLoop(b, regs, ld, val, i) ==
    IF i > 7 THEN b
    ELSE LET io_addr == Reg(regs, 96 + 2 * i) * 256 + Reg(regs, 96 + 2 * i + 1)
             b1 == IF Bit(Reg(regs, 49), 1) = 1
                   THEN io_removehandler(b, RangeCheckHandler(io_addr, ld))
                   ELSE b
             b2 == IF Bit(val, 1) = 1
                   THEN io_sethandler(b1, RangeCheckHandler(io_addr, ld))
                   ELSE b1
         IN  RangeCheckLoop(b2, regs, ld, val, i + 1)

IoRangeCheck(s, val) ==
    IF s.current_ld = NULL_LD THEN s
    ELSE LET ld == s.current_ld
         IN  [s EXCEPT
                !.io_handlers = RangeCheckLoop(@, LdOf(s, ld).regs, ld, val, 0),
                !.cards[ld[1]].lds[ld[2]].regs = SetReg(@, 49, val % 4)]

\* registers 0x20..0x2f: vendor-defined, card level
WriteCardVendorReg(s, val) ==
    LET c == CHECK_CURRENT_CARD(s)
    IN  IF c = NULL THEN s
        ELSE IF s.cards[c].write_vendor_reg
        THEN [s EXCEPT !.calls =
                 Append(@, [cb |-> "write_vendor_reg", card |-> c, ld |-> 0,
                            reg |-> s.reg, val |-> val])]
        ELSE s

\* registers 0x38..0x3f and 0xf0..0xfe: vendor-defined, logical device level
WriteLdVendorReg(s, val) ==
    IF s.current_ld = NULL_LD THEN s
    ELSE IF s.cards[s.current_ld_card].write_vendor_reg
    THEN [s EXCEPT !.calls =
             Append(@, [cb |-> "write_vendor_reg", card |-> s.current_ld_card,
                        ld |-> LdOf(s, s.current_ld).number,
                        reg |-> s.reg, val |-> val])]
    ELSE s

\* the inner switch of the default case: registers whose bit 0 is read-only
ReadOnlyBit0Regs == {66, 74, 82, 90, 122, 132, 148, 164}

\* a default case that makes the callback before it stores the value
WriteLdReg_StaleRecord(s, val) ==
    IF s.reg < 64 THEN s
    ELSE IF s.current_ld = NULL_LD THEN s
    ELSE LET ld == s.current_ld
             s1 == isapnp_device_config_changed(s, s.current_ld_card, ld)
         IN  [s1 EXCEPT !.cards[ld[1]].lds[ld[2]].regs = SetReg(@, s.reg, val)]

\* default: if (dev->reg >= 0x40)
WriteLdReg(s, val) ==
    IF s.reg < 64 THEN s
    ELSE IF s.current_ld = NULL_LD THEN s
    ELSE LET ld == s.current_ld
             v  == IF s.reg \in ReadOnlyBit0Regs
                   THEN (val - (val % 2)) + (Reg(LdOf(s, ld).regs, s.reg) % 2)
                   ELSE val
             s1 == [s EXCEPT !.cards[ld[1]].lds[ld[2]].regs = SetReg(@, s.reg, v)]
         IN  isapnp_device_config_changed(s1, s.current_ld_card, ld)

CardVendorRegs == 32..47
LdVendorRegs == (56..63) \cup (240..254)

isapnp_write_data(s, val) ==
    CASE s.reg = 0 -> isapnp_set_read_data(s, ((val * 4) % 65536) + 3)
      [] s.reg = 2 -> ConfigControl(s, val)
      [] s.reg = 3 -> Wake(s, val)
      [] s.reg = 6 -> SetCsn(s, val)
      [] s.reg = 7 -> SelectLd(s, val)
      [] s.reg = 48 -> Activate(s, val)
      [] s.reg = 49 -> IoRangeCheck(s, val)
      [] s.reg \in CardVendorRegs -> WriteCardVendorReg(s, val)
      [] s.reg \in LdVendorRegs -> WriteLdVendorReg(s, val)
      [] OTHER -> WriteLdReg(s, val)

-----------------------------------------------------------------------------
(* isapnp_read_data                                                        *)

\* a first half that wraps the position after 36 pairs
SerialFirstHalf_Wrap36(card) ==
    [card EXCEPT
       !.serial_read = 85 * Bit(card.rom[card.serial_read_pos \div 8],
                                card.serial_read_pos % 8),
       !.serial_read_pos = (@ + 1) % 36]

\* first byte of a pair (55/00): compute the next bit of the serial stream
SerialFirstHalf(card) ==
    LET pos  == card.serial_read_pos
        ck   == card.id_checksum
        bit  == IF pos < 64
                THEN Bit(card.rom[pos \div 8], pos % 8)
                ELSE Bit(ck, pos % 8)
        next_shift == (Bit(ck, 1) + Bit(ck, 0) + bit) % 2
    IN  [card EXCEPT
           !.id_checksum = IF pos < 64 THEN (ck \div 2) + 128 * next_shift ELSE @,
           !.rom = IF pos = 64 THEN [@ EXCEPT ![8] = ck] ELSE @,
           !.serial_read = IF bit = 1 THEN 85 ELSE 0,
           !.serial_read_pos = (pos + 1) % 72]

\* second byte of a pair (aa/00)
SerialSecondHalf(card) ==
    [card EXCEPT
       !.serial_read = (@ * 2) % 256,
       !.rom_pos = IF card.serial_read_pos = 0 THEN 9 ELSE @]

\* case 0x01: Serial Isolation
SerialIsolation(s) ==
    LET c  == FirstInState(s.cards, PNP_STATE_ISOLATION)
        s1 == [s EXCEPT !.isolated_card = c]
    IN  IF c = NULL THEN s1
        ELSE LET card  == IF s.cards[c].serial_read_pair # 0
                          THEN SerialSecondHalf(s.cards[c])
                          ELSE SerialFirstHalf(s.cards[c])
                 card2 == [card EXCEPT !.serial_read_pair = 1 - @]
             IN  [s1 EXCEPT !.cards[c] = card2, !.ret = card2.serial_read]

\* a variant: the cursor is not compared with the ROM length
ResourceData_NoBound(s) ==
    LET c == CHECK_CURRENT_CARD(s)
    IN  IF c = NULL THEN s
        ELSE [s EXCEPT !.ret = IF s.cards[c].rom_pos \in DOMAIN s.cards[c].rom
                                THEN s.cards[c].rom[s.cards[c].rom_pos]
                                ELSE 255,
                       !.cards[c].rom_pos = @ + 1]

\* case 0x04: Resource Data
ResourceData(s) ==
    LET c == CHECK_CURRENT_CARD(s)
    IN  IF c = NULL THEN s
        ELSE IF s.cards[c].rom_pos >= s.cards[c].rom_size
        THEN [s EXCEPT !.ret = 255]
        ELSE [s EXCEPT !.ret = s.cards[c].rom[s.cards[c].rom_pos],
                       !.cards[c].rom_pos = @ + 1]

\* cases 0x20..0x2f; vret is what the card's read_vendor_reg returns
ReadCardVendorReg(s, vret) ==
    LET c == CHECK_CURRENT_CARD(s)
    IN  IF c = NULL THEN s
        ELSE IF s.cards[c].read_vendor_reg
        THEN [s EXCEPT
                !.ret = vret,
                !.calls = Append(@, [cb |-> "read_vendor_reg", card |-> c,
                                     ld |-> 0, reg |-> s.reg])]
        ELSE s

\* cases 0x38..0x3f and 0xf0..0xfe
ReadLdVendorReg(s, vret) ==
    IF s.current_ld = NULL_LD THEN s
    ELSE IF s.cards[s.current_ld_card].read_vendor_reg
    THEN [s EXCEPT
            !.ret = vret,
            !.calls = Append(@, [cb |-> "read_vendor_reg",
                                 card |-> s.current_ld_card,
                                 ld |-> LdOf(s, s.current_ld).number,
                                 reg |-> s.reg])]
    ELSE s

\* s.ret holds the initial "ret = 0xff" when the switch is entered
isapnp_read_data(s, vret) ==
    CASE s.reg = 1 -> SerialIsolation(s)
      [] s.reg = 4 -> ResourceData(s)
      [] s.reg = 5 ->
           IF CHECK_CURRENT_CARD(s) = NULL THEN [s EXCEPT !.ret = 0]
           ELSE [s EXCEPT !.ret = 1]
      [] s.reg = 6 ->
           IF CHECK_CURRENT_CARD(s) = NULL THEN [s EXCEPT !.ret = 0]
           ELSE [s EXCEPT !.ret = s.cards[CHECK_CURRENT_CARD(s)].csn]
      [] s.reg = 7 ->
           IF s.current_ld = NULL_LD THEN [s EXCEPT !.ret = 0]
           ELSE [s EXCEPT !.ret = LdOf(s, s.current_ld).number]
      [] s.reg \in CardVendorRegs -> ReadCardVendorReg(s, vret)
      [] s.reg \in LdVendorRegs -> ReadLdVendorReg(s, vret)
      [] OTHER ->
           IF s.reg >= 48 /\ s.current_ld # NULL_LD
           THEN [s EXCEPT !.ret = Reg(LdOf(s, s.current_ld).regs, s.reg)]
           ELSE s

-----------------------------------------------------------------------------
(* Actions: one port access each                                           *)

Apply(s) ==
    /\ reg' = s.reg
    /\ key_pos' = s.key_pos
    /\ read_data_addr' = s.read_data_addr
    /\ isolated_card' = s.isolated_card
    /\ current_ld_card' = s.current_ld_card
    /\ current_ld' = s.current_ld
    /\ cards' = s.cards
    /\ io_handlers' = s.io_handlers
    /\ ret' = s.ret
    /\ calls' = s.calls
    /\ fatal' = s.fatal

\* a write handler returns nothing and starts with no callback made
Entry(r) == [State EXCEPT !.ret = r, !.calls = <<>>]

\* reads_since_wake: a Wake that takes the card out of SLEEP starts the count
CountWake(val) ==
    [c \in 1..Len(cards) |->
        IF reg = 3 /\ cards[c].csn = val /\ cards[c].state = PNP_STATE_SLEEP
        THEN 0 ELSE reads_since_wake[c]]

\* the card an isolation read is served by
IsolatingCard == FirstInState(cards, PNP_STATE_ISOLATION)

WriteAddr(val) ==
    /\ ~fatal
    /\ LET s == isapnp_write_addr(Entry(0), val) IN Apply(s)
    /\ op' = [port |-> "addr", reg |-> 0, val |-> val]
    /\ UNCHANGED <<iso_reads, reads_since_wake>>

WriteData(val) ==
    /\ ~fatal
    /\ LET s == isapnp_write_data(Entry(0), val) IN Apply(s)
    /\ op' = [port |-> "data", reg |-> reg, val |-> val]
    /\ reads_since_wake' = CountWake(val)
    /\ UNCHANGED iso_reads

\* A read of the read-data port, possible while the port is set.  A card
\* serves at most maxReads isolation half-reads.
ReadData(vret, maxReads) ==
    /\ ~fatal
    /\ read_data_addr # 0
    /\ (reg = 1 /\ IsolatingCard # NULL) => iso_reads[IsolatingCard] < maxReads
    /\ LET s == isapnp_read_data(Entry(255), vret) IN Apply(s)
    /\ op' = [port |-> "read", reg |-> reg, val |-> 0]
    /\ IF reg = 1 /\ IsolatingCard # NULL
       THEN /\ reads_since_wake' =
                  [reads_since_wake EXCEPT ![IsolatingCard] = @ + 1]
            /\ iso_reads' = [iso_reads EXCEPT ![IsolatingCard] = @ + 1]
       ELSE UNCHANGED <<iso_reads, reads_since_wake>>

-----------------------------------------------------------------------------
(* Initial states: isapnp_init, then the isapnp_add_card calls             *)

InitWith(cs) ==
    /\ reg = 0
    /\ key_pos = 0
    /\ read_data_addr = 0
    /\ isolated_card = NULL
    /\ current_ld_card = NULL
    /\ current_ld = NULL_LD
    /\ cards = cs
    /\ io_handlers = NoHandlers
    /\ ret = 0
    /\ calls = <<>>
    /\ fatal = FALSE
    /\ op = [port |-> "none", reg |-> 0, val |-> 0]
    /\ iso_reads = [c \in 1..Len(cs) |-> 0]
    /\ reads_since_wake = [c \in 1..Len(cs) |-> 0]

KeyBytes == {pnp_init_key[i] : i \in 0..31}

\* Address-port inputs while the key is awaited: the byte at the cursor, the
\* first key byte (a key byte that is wrong at any other cursor) and bytes
\* that are in no position of the key.
KeyAddrVals(others) == {pnp_init_key[key_pos], pnp_init_key[0]} \cup others

Waiting == Len(cards) > 0 /\ cards[1].state = PNP_STATE_WAIT_FOR_KEY

-----------------------------------------------------------------------------
(* Spec: the card state machine.  Two cards; the guest writes the key once, *)
(* then the command registers, every Config Control value, Wake and        *)
(* Set-CSN values up to MaxCsn, and reads the isolation register.  Once    *)
(* Config Control has returned the cards to WAIT_FOR_KEY the guest writes  *)
(* only the data port (SpecKey is where the key is written again).         *)

MaxCsn == 1
MaxIsoReads == 1

ProtoCards ==
    { <<AddRom(IdA, BodyA, AllCallbacks), AddRom(IdB, BodyC, cb)>> :
        cb \in {AllCallbacks, NoCallbacks} }

ProtoAddrVals ==
    IF ~Waiting THEN {0, 1, 2, 3, 6}
    ELSE IF reg = 0 THEN KeyAddrVals({2})
    ELSE {}

ProtoDataVals ==
    CASE reg = 0 -> {128}
      [] reg = 2 -> 0..7
      [] reg \in {3, 6} -> 0..MaxCsn
      [] OTHER -> {0}

Init == \E cs \in ProtoCards : InitWith(cs)

Next ==
    \/ \E v \in ProtoAddrVals : WriteAddr(v)
    \/ \E v \in ProtoDataVals : WriteData(v)
    \/ ReadData(0, MaxIsoReads)

Spec == Init /\ [][Next]_vars

-----------------------------------------------------------------------------
(* SpecKey: the initiation key.  The guest writes any key byte or other    *)
(* byte at any cursor position, and returns the cards to WAIT_FOR_KEY.     *)

KeyCards == <<AddRom(IdA, BodyC, AllCallbacks), AddRom(IdB, BodyC, NoCallbacks)>>

KeyAddrInputs == KeyBytes \cup {0, 2, 3}

KeyDataVals ==
    CASE reg = 2 -> {2}
      [] reg = 3 -> {0}
      [] OTHER -> {}

InitKey == InitWith(KeyCards)

NextKey ==
    \/ \E v \in KeyAddrInputs : WriteAddr(v)
    \/ \E v \in KeyDataVals : WriteData(v)

SpecKey == InitKey /\ [][NextKey]_vars

-----------------------------------------------------------------------------
(* SpecIso: the isolation engine.  The guest writes the key, sets the read  *)
(* port and reads the isolation register up to MaxIsoHalfReads times, more *)
(* than two passes over the 72 positions.  It writes Wake[0] and Wake[1]   *)
(* only before the first card has served more than WakeWindow half-reads.  *)

MaxIsoHalfReads == 290
WakeWindow == 2

IsoCards ==
    { <<AddRom(IdA, BodyC, NoCallbacks), AddRom(IdB, BodyC, NoCallbacks)>>,
      <<AddRom(IdB, BodyC, NoCallbacks), AddRom(IdC, BodyC, NoCallbacks)>>,
      <<AddRom(IdC, BodyC, NoCallbacks), AddRom(IdA, BodyC, NoCallbacks)>> }

InWakeWindow == iso_reads[1] <= WakeWindow

IsoAddrVals ==
    IF Waiting THEN {pnp_init_key[key_pos]}
    ELSE IF InWakeWindow THEN {0, 1, 3}
    ELSE {}

IsoDataVals ==
    CASE Waiting -> {}
      [] reg = 0 /\ read_data_addr = 0 -> {128}
      [] reg = 3 /\ InWakeWindow -> {0, 1}
      [] OTHER -> {}

InitIso == \E cs \in IsoCards : InitWith(cs)

NextIso ==
    \/ \E v \in IsoAddrVals : WriteAddr(v)
    \/ \E v \in IsoDataVals : WriteData(v)
    \/ reg = 1 /\ ReadData(0, MaxIsoHalfReads)

SpecIso == InitIso /\ [][NextIso]_vars

-----------------------------------------------------------------------------
(* SpecRegs: the register file of a logical device.  The guest writes the  *)
(* key, isolates the first card, gives it CSN 1 and selects its logical    *)
(* device 0; while a device is addressed it writes RegVals to the          *)
(* registers of                                                            *)
(* RegIndices: Config Control, the device number, a card and a device      *)
(* vendor register, Activate, I/O Range Check, a memory base, the control  *)
(* registers of 24-bit slot 0 and 32-bit slots 0 and 3, and 0xF0 and 0xFF. *)
(* I/O Range Check is written with the enable bit clear, so that no range  *)
(* check handler is registered.                                            *)

RegsCards ==
    { <<AddRom(IdA, BodyR, cb), AddRom(IdB, BodyC, AllCallbacks)>> :
        cb \in {AllCallbacks, NoCallbacks} }

RegIndices == {2, 7, 32, 48, 49, 56, 64, 66, 122, 180, 240, 255}
RegVals == {0, 1, 255}

RegsAddrVals ==
    IF Waiting THEN {pnp_init_key[key_pos]}
    ELSE IF current_ld # NULL_LD THEN RegIndices
    ELSE IF CHECK_CURRENT_CARD(State) # NULL THEN {7}
    ELSE {0, 1, 3, 6}

RegsDataVals ==
    CASE Waiting -> {}
      [] reg = 0 -> {128}
      [] reg = 1 -> {}
      [] reg = 2 -> {1}
      [] reg = 3 -> {0}
      [] reg = 6 -> {1}
      [] reg = 7 -> {0}
      [] reg = 49 -> {0, 1}
      [] OTHER -> RegVals

InitRegs == \E cs \in RegsCards : InitWith(cs)

NextRegs ==
    \/ \E v \in RegsAddrVals : WriteAddr(v)
    \/ \E v \in RegsDataVals : WriteData(v)
    \/ reg = 1 /\ ReadData(0, MaxIsoReads)

SpecRegs == InitRegs /\ [][NextRegs]_vars

-----------------------------------------------------------------------------
(* SpecMem: the memory windows of the configuration record.  One card with *)
(* one logical device that has a 24-bit and a 32-bit memory range, both by *)
(* upper limit or both by length.  The guest brings the device to be       *)
(* addressed, then writes base and size bytes of 24-bit slot 0 and 32-bit  *)
(* slot 0.                                                                 *)

\* one logical device, a 24-bit and a 32-bit range, both by length
BodyM == LdTag(0) \o MemDesc(0) \o Mem32Desc(0)

MemCards ==
    { <<AddRom(IdA, body, AllCallbacks)>> : body \in {BodyR, BodyM} }

\* base (0x40, 0x41) and second field (0x43, 0x44) of 24-bit slot 0; first and
\* last base byte (0x76, 0x79) and second-field byte (0x7B, 0x7E) of 32-bit
\* slot 0
MemIndices == {64, 65, 67, 68, 118, 121, 123, 126}

MemAddrVals ==
    IF Waiting THEN {pnp_init_key[key_pos]}
    ELSE IF current_ld # NULL_LD THEN MemIndices
    ELSE IF CHECK_CURRENT_CARD(State) # NULL THEN {7}
    ELSE {0, 1, 3, 6}

MemDataVals ==
    CASE Waiting -> {}
      [] reg = 0 -> {128}
      [] reg = 1 -> {}
      [] reg = 3 -> {0}
      [] reg = 6 -> {1}
      [] reg = 7 -> {0}
      [] reg \in {65, 68} -> {0, 16, 32}
      [] reg \in {118, 123} -> {0, 128}
      [] OTHER -> {0, 1}

InitMem == \E cs \in MemCards : InitWith(cs)

NextMem ==
    \/ \E v \in MemAddrVals : WriteAddr(v)
    \/ \E v \in MemDataVals : WriteData(v)
    \/ reg = 1 /\ ReadData(0, MaxIsoReads)

SpecMem == InitMem /\ [][NextMem]_vars

-----------------------------------------------------------------------------
(* SpecRange: the I/O range check.  One card with one logical device.  The *)
(* guest brings the device to be addressed, then writes I/O Range Check    *)
(* (0x31) with the enable bit set or clear, the low byte of I/O base 0     *)
(* (0x61) and Config Control resets.  It enables the range check only      *)
(* while fewer than MaxRangeHandlers range check handlers are registered.  *)

MaxRangeHandlers == 16

RECURSIVE CountIn(_, _)
CountIn(b, K) ==
    IF K = {} THEN 0
    ELSE LET k == CHOOSE x \in K : TRUE
         IN  b[k] + CountIn(b, K \ {k})

\* registrations of isapnp_read_rangecheck in the handler table
RangeHandlerCount ==
    CountIn(io_handlers,
            {k \in DOMAIN io_handlers : k[1] = "isapnp_read_rangecheck"})

RangeCards == <<AddRom(IdA, BodyC, AllCallbacks)>>

RangeIndices == {2, 49, 97}

RangeAddrVals ==
    IF Waiting THEN {pnp_init_key[key_pos]}
    ELSE IF current_ld # NULL_LD THEN RangeIndices
    ELSE IF CHECK_CURRENT_CARD(State) # NULL THEN {7}
    ELSE {0, 1, 3, 6}

RangeDataVals ==
    CASE Waiting -> {}
      [] reg = 0 -> {128}
      [] reg = 1 -> {}
      [] reg = 2 -> {1}
      [] reg = 3 -> {0}
      [] reg = 6 -> {1}
      [] reg = 7 -> {0}
      [] reg = 49 -> IF RangeHandlerCount < MaxRangeHandlers
                     THEN {0, 2} ELSE {0}
      [] OTHER -> {0, 1}

InitRange == InitWith(RangeCards)

NextRange ==
    \/ \E v \in RangeAddrVals : WriteAddr(v)
    \/ \E v \in RangeDataVals : WriteData(v)
    \/ reg = 1 /\ ReadData(0, MaxIsoReads)

SpecRange == InitRange /\ [][NextRange]_vars

-----------------------------------------------------------------------------
(* SpecPort: the read-data port.  The guest writes the key, then writes    *)
(* register 0x00 with values on both sides of the valid range, writes      *)
(* Config Control resets and Wake[0], and reads the port.                  *)

PortCards ==
    { <<AddRom(IdA, BodyC, AllCallbacks)>>,
      <<AddRom(IdB, BodyC, NoCallbacks), AddRom(IdC, BodyA, AllCallbacks)>> }

PortAddrVals ==
    IF Waiting THEN {pnp_init_key[key_pos]} ELSE {0, 2, 3}

PortDataVals ==
    CASE Waiting -> {}
      [] reg = 0 -> {0, 1, 127, 128, 129, 200, 255}
      [] reg = 2 -> {1}
      [] OTHER -> {0}

InitPort == \E cs \in PortCards : InitWith(cs)

NextPort ==
    \/ \E v \in PortAddrVals : WriteAddr(v)
    \/ \E v \in PortDataVals : WriteData(v)
    \/ ReadData(0, MaxIsoReads)

SpecPort == InitPort /\ [][NextPort]_vars

-----------------------------------------------------------------------------
(* SpecSelect: selecting a logical device.  Two cards, the first with      *)
(* logical devices 0 and 1, the second with logical device 0.  The guest   *)
(* writes the key once, isolates cards, gives them CSNs up to MaxCsn,      *)
(* wakes them, and selects logical devices 0, 1 and 2.                     *)

SelectCards ==
    <<AddRom(IdA, BodyA, NoCallbacks), AddRom(IdB, BodyC, NoCallbacks)>>

SelectAddrVals ==
    IF Waiting THEN {pnp_init_key[key_pos]} ELSE {0, 1, 3, 6, 7}

SelectDataVals ==
    CASE Waiting -> {}
      [] reg = 0 -> {128}
      [] reg = 1 -> {}
      [] reg \in {3, 6} -> 0..MaxCsn
      [] reg = 7 -> {0, 1, 2}
      [] OTHER -> {}

InitSelect == InitWith(SelectCards)

NextSelect ==
    \/ \E v \in SelectAddrVals : WriteAddr(v)
    \/ \E v \in SelectDataVals : WriteData(v)
    \/ reg = 1 /\ ReadData(0, MaxIsoReads)

SpecSelect == InitSelect /\ [][NextSelect]_vars

-----------------------------------------------------------------------------
(* SpecProbe: accesses with and without their context.  The guest writes   *)
(* the key once, sets the read port, and then reads and writes the card    *)
(* and logical-device registers of ProbeIndices in any card state, before  *)
(* and after a card is configured and a logical device is addressed.       *)
(* While a logical device is addressed, only Wake, register 0x30 and the   *)
(* card registers are accessed; resource data is read only while no card   *)
(* is in CONFIG.                                                           *)

ProbeCards ==
    <<AddRom(IdA, BodyC, AllCallbacks), AddRom(IdB, BodyC, NoCallbacks)>>

ProbeIndices == {1, 3, 4, 5, 6, 7, 32, 47, 48, 49, 56, 63, 64, 96, 240, 255}

ProbeAddrVals ==
    IF Waiting THEN {pnp_init_key[key_pos]}
    ELSE IF current_ld # NULL_LD
    THEN IF CHECK_CURRENT_CARD(State) # NULL THEN {3, 5, 48}
         ELSE {3, 4, 5, 6, 32, 48}
    ELSE IF CHECK_CURRENT_CARD(State) # NULL
    THEN {3, 5, 6, 7, 48, 49, 56, 63, 64, 96, 240, 255}
    ELSE {0} \cup ProbeIndices

ProbeDataVals ==
    CASE Waiting -> {}
      [] reg = 0 -> {128}
      [] reg = 3 -> {0, 1}
      [] reg = 6 -> {1}
      [] reg = 7 -> {0}
      [] reg = 49 -> {3}
      [] reg \in {32, 47, 48, 56, 63, 64, 96, 240, 255} -> {1}
      [] OTHER -> {}

InitProbe == InitWith(ProbeCards)

NextProbe ==
    \/ \E v \in ProbeAddrVals : WriteAddr(v)
    \/ \E v \in ProbeDataVals : WriteData(v)
    \/ ReadData(66, MaxIsoReads)

SpecProbe == InitProbe /\ [][NextProbe]_vars

-----------------------------------------------------------------------------
(* SpecParse: isapnp_add_card on ROMs with dependent functions.  A ROM is  *)
(* one or two logical devices; a device is memory descriptors, then up to  *)
(* MaxAlternatives dependent-function alternatives, each a start item and  *)
(* its memory descriptors, then an end item or none.  One card is          *)
(* attached, before any port access.                                       *)

MaxAlternatives == 3

\* the resource items: "m" a 24-bit and "w" a 32-bit memory descriptor,
\* "4" with the upper-limit bit of the information byte set
EncodeItem(x) ==
    CASE x = "ld"  -> LdTag(0)
      [] x = "sdf" -> StartDf
      [] x = "edf" -> EndDf
      [] x = "m0"  -> MemDesc(0)
      [] x = "m4"  -> MemDesc(4)
      [] x = "w0"  -> Mem32Desc(0)
      [] x = "w4"  -> Mem32Desc(4)

RECURSIVE EncodeItems(_)
EncodeItems(items) ==
    IF items = <<>> THEN <<>>
    ELSE EncodeItem(Head(items)) \o EncodeItems(Tail(items))

RECURSIVE AlternativeItems(_)
AlternativeItems(alts) ==
    IF alts = <<>> THEN <<>>
    ELSE <<"sdf">> \o Head(alts) \o AlternativeItems(Tail(alts))

DeviceItems(d) ==
    <<"ld">> \o d.pre \o AlternativeItems(d.alts)
             \o (IF d.closed THEN <<"edf">> ELSE <<>>)

RECURSIVE BodyItems(_)
BodyItems(b) ==
    IF b = <<>> THEN <<>> ELSE DeviceItems(Head(b)) \o BodyItems(Tail(b))

ParseAlternatives ==
    {<<"m0">>, <<"m4">>, <<"m4", "w0">>, <<"m0", "m4", "m0", "m4">>}

ParseAlternativeLists ==
    UNION {[1..n -> ParseAlternatives] : n \in 0..MaxAlternatives}

ParseDevices ==
    [pre : {<<>>, <<"m4">>, <<"m0", "w4">>},
     alts : ParseAlternativeLists,
     closed : BOOLEAN]

ParseFirstDevices ==
    {[pre |-> <<"m4">>, alts |-> <<>>, closed |-> FALSE],
     [pre |-> <<>>, alts |-> <<<<"m0">>>>, closed |-> TRUE],
     [pre |-> <<>>, alts |-> <<<<"m0">>>>, closed |-> FALSE]}

ParseBodies ==
    {<<d>> : d \in ParseDevices}
        \cup {<<f, d>> : f \in ParseFirstDevices, d \in ParseDevices}

\* isapnp_add_card called with the ROM of body b; fatal() on a memory
\* descriptor overflow
AddCard(b) ==
    /\ ~fatal
    /\ cards = <<>>
    /\ LET card == AddRom(IdA, EncodeItems(BodyItems(b)), NoCallbacks)
       IN  /\ cards' = Append(cards, card)
           /\ fatal' = (card.parse_err = "overflow")
    /\ op' = [port |-> "add", reg |-> 0, val |-> b]
    /\ iso_reads' = Append(iso_reads, 0)
    /\ reads_since_wake' = Append(reads_since_wake, 0)
    /\ UNCHANGED <<reg, key_pos, read_data_addr, isolated_card,
                   current_ld_card, current_ld, io_handlers, ret, calls>>

InitParse == InitWith(<<>>)

NextParse == \E b \in ParseBodies : AddCard(b)

SpecParse == InitParse /\ [][NextParse]_vars

-----------------------------------------------------------------------------
(* SpecWait: leaving and re-entering WAIT_FOR_KEY.  The guest writes the   *)
(* key byte at the cursor, the first key byte or a command register index  *)
(* while the cards wait, whatever the register index; otherwise it sets    *)
(* the read port, wakes and isolates cards, gives them CSNs, and returns   *)
(* them to WAIT_FOR_KEY with and without a reset.                          *)

WaitCards ==
    <<AddRom(IdA, BodyC, NoCallbacks), AddRom(IdB, BodyC, NoCallbacks)>>

WaitAddrVals ==
    IF Waiting THEN KeyAddrVals({2, 3})
    ELSE {0, 1, 2, 3, 6}

WaitDataVals ==
    CASE reg = 0 -> {128}
      [] reg = 2 -> {2, 3}
      [] reg \in {3, 6} -> 0..MaxCsn
      [] OTHER -> {}

InitWait == InitWith(WaitCards)

NextWait ==
    \/ \E v \in WaitAddrVals : WriteAddr(v)
    \/ \E v \in WaitDataVals : WriteData(v)
    \/ reg = 1 /\ ReadData(0, MaxIsoReads)

SpecWait == InitWait /\ [][NextWait]_vars

-----------------------------------------------------------------------------
(* SpecRom: the ROM read cursor.  One card with an 11-byte ROM (the        *)
(* identifier, the checksum byte and an end tag), one card with a 9-byte   *)
(* ROM, or both.  The guest wakes and isolates cards, gives them a         *)
(* CSN, reads resource data up to and past the end of the ROM, and resets. *)
(* A card alone is read in isolation up to MaxRomIsoReads times, past the  *)
(* wrap of the position counter; between WakeWindow and RomPassReads       *)
(* half-reads the guest only reads on.                                     *)

MaxRomIsoReads == 146
RomPassReads == 2 * 72

Rom9(id, cb) == isapnp_add_card(RomOf(id \o <<0>>), 9, cb)

RomCards ==
    { <<AddRom(IdA, <<>>, NoCallbacks)>>,
      <<Rom9(IdB, NoCallbacks)>>,
      <<AddRom(IdA, <<>>, NoCallbacks), Rom9(IdB, NoCallbacks)>> }

MidPass == iso_reads[1] > WakeWindow /\ iso_reads[1] < RomPassReads

RomAddrVals ==
    IF Waiting THEN {pnp_init_key[key_pos]}
    ELSE IF MidPass THEN {}
    ELSE {0, 1, 2, 3, 4, 6}

RomDataVals ==
    CASE Waiting -> {}
      [] MidPass -> {}
      [] reg = 0 -> {128}
      [] reg = 2 -> {5}
      [] reg = 3 -> {0, 1}
      [] reg = 6 -> {1}
      [] OTHER -> {}

InitRom == \E cs \in RomCards : InitWith(cs)

NextRom ==
    \/ \E v \in RomAddrVals : WriteAddr(v)
    \/ \E v \in RomDataVals : WriteData(v)
    \/ /\ reg \in {1, 4}
       /\ ReadData(0, IF Len(cards) = 1 THEN MaxRomIsoReads ELSE MaxIsoReads)

SpecRom == InitRom /\ [][NextRom]_vars

-----------------------------------------------------------------------------
(* Properties                                                              *)

AllInState(st) == \A c \in 1..Len(cards) : cards[c].state = st

\* A step is an access of the given port with the given register index.
DataWrite(r) == op'.port = "data" /\ op'.reg = r

\* the controller's own fields are left alone by a step
DevUnchanged ==
    UNCHANGED <<reg, key_pos, read_data_addr, current_ld_card, current_ld,
                io_handlers>>

(* C1: an address-port write made while the cards are WAIT_FOR_KEY advances *)
(* the cursor by one (modulo 32) when the byte equals the key byte at the   *)
(* cursor and sets it to 0 otherwise; the WAIT_FOR_KEY cards go to SLEEP    *)
(* exactly at the write that matches at cursor 31, which leaves the cursor  *)
(* at 0; no other address-port write changes any card.                      *)
C1_KeyMatching ==
    [][op'.port = "addr" =>
        LET match  == Waiting /\ op'.val = pnp_init_key[key_pos]
            unlock == match /\ key_pos = 31
        IN  /\ Waiting => key_pos' = IF match THEN (key_pos + 1) % 32 ELSE 0
            /\ unlock => key_pos' = 0
            /\ cards' = [c \in 1..Len(cards) |->
                           IF unlock /\ cards[c].state = PNP_STATE_WAIT_FOR_KEY
                           THEN [cards[c] EXCEPT !.state = PNP_STATE_SLEEP]
                           ELSE cards[c]]]_vars

\* the key has just been completed: every card went to SLEEP
C1_Witness ==
    /\ op.port = "addr" /\ op.val = pnp_init_key[31]
    /\ key_pos = 0
    /\ AllInState(PNP_STATE_SLEEP)

(* C5 (as claimed): after a Config Control write with bit 1 set every card  *)
(* is in WAIT_FOR_KEY and the key cursor is 0.                              *)
C5_WaitForKeyResetsCursor ==
    (op.port = "data" /\ op.reg = 2 /\ Bit(op.val, 1) = 1)
        => (AllInState(PNP_STATE_WAIT_FOR_KEY) /\ key_pos = 0)

(* C2: Wake[target] (data-port write, register 0x03): a card whose CSN is   *)
(* the target gets ROM cursor 0 and checksum 0x6A and changes state only    *)
(* from SLEEP (to ISOLATION for target 0, to CONFIG otherwise); any other   *)
(* card goes to SLEEP with cursor and checksum unchanged; no CSN changes.   *)
C2_Wake ==
    [][DataWrite(3) =>
        /\ Len(cards') = Len(cards)
        /\ \A c \in 1..Len(cards) :
             LET a == cards[c]
                 b == cards'[c]
             IN  /\ b.csn = a.csn
                 /\ IF a.csn = op'.val
                    THEN /\ b.rom_pos = 0
                         /\ b.id_checksum = 106
                         /\ b.state = IF a.state # PNP_STATE_SLEEP THEN a.state
                                      ELSE IF op'.val = 0 THEN PNP_STATE_ISOLATION
                                      ELSE PNP_STATE_CONFIG
                    ELSE /\ b.state = PNP_STATE_SLEEP
                         /\ b.rom_pos = a.rom_pos
                         /\ b.id_checksum = a.id_checksum]_vars

\* Wake[1] has taken the card with CSN 1 to CONFIG and put the other to SLEEP
C2_Witness ==
    /\ op.port = "data" /\ op.reg = 3 /\ op.val = 1
    /\ \E c, d \in 1..Len(cards) :
          /\ cards[c].csn = 1 /\ cards[c].state = PNP_STATE_CONFIG
          /\ cards[d].csn = 0 /\ cards[d].state = PNP_STATE_SLEEP
          /\ cards[d].id_checksum = 106

(* C3: Set-CSN[value] (data-port write, register 0x06) acts only on the     *)
(* card in the active-isolation reference: its CSN becomes value, its       *)
(* csn_changed callback (if it registered one) is called once with value,   *)
(* its state becomes CONFIG and the reference is cleared; all else is       *)
(* unchanged.  With an empty reference nothing changes and nothing is       *)
(* called.                                                                  *)
C3_SetCsn ==
    [][DataWrite(6) =>
        /\ DevUnchanged
        /\ IF isolated_card # NULL
           THEN /\ cards' = [cards EXCEPT
                               ![isolated_card].csn = op'.val,
                               ![isolated_card].state = PNP_STATE_CONFIG]
                /\ calls' = IF cards[isolated_card].csn_changed
                            THEN <<[cb |-> "csn_changed",
                                    card |-> isolated_card, csn |-> op'.val]>>
                            ELSE <<>>
                /\ isolated_card' = NULL
           ELSE /\ cards' = cards
                /\ calls' = <<>>
                /\ isolated_card' = NULL]_vars

\* Set-CSN[1] has moved the second card to CONFIG and called it back; the
\* first card keeps CSN 0
C3_Witness ==
    /\ op.port = "data" /\ op.reg = 6 /\ op.val = 1
    /\ Len(cards) = 2
    /\ cards[2].csn = 1 /\ cards[2].state = PNP_STATE_CONFIG
    /\ cards[1].csn = 0
    /\ calls = <<[cb |-> "csn_changed", card |-> 2, csn |-> 1]>>
    /\ isolated_card = NULL

\* the controller and its cards after a step, as a record
StateAfter ==
    [reg |-> reg', key_pos |-> key_pos', read_data_addr |-> read_data_addr',
     isolated_card |-> isolated_card', current_ld_card |-> current_ld_card',
     current_ld |-> current_ld', cards |-> cards', io_handlers |-> io_handlers',
     ret |-> ret', calls |-> calls', fatal |-> fatal']

\* the data-port write of val when bit k of it is set, nothing otherwise
WriteBit(s, val, k) ==
    IF Bit(val, k) = 1 THEN isapnp_write_data(s, 2 ^ k) ELSE s

\* the callbacks a reset makes: one per logical device of every card that
\* registered config_changed, in card order then device order, each with the
\* record of the reset registers
ResetCallbacks ==
    LET lds  == AllLds(cards, 1)
        mine == SelectSeq(lds, LAMBDA ld : cards[ld[1]].config_changed)
    IN  [k \in 1..Len(mine) |->
            [cb |-> "config_changed", card |-> mine[k][1],
             ld |-> cards[mine[k][1]].lds[mine[k][2]].number,
             config |-> ConfigOf(ResetRegs(
                            cards[mine[k][1]].lds[mine[k][2]].upperlimit))]]

\* the callbacks a CSN reset makes: one per card that registered csn_changed,
\* in card order
CsnResetCallbacks ==
    LET mine == SelectSeq([c \in 1..Len(cards) |-> c],
                          LAMBDA c : cards[c].csn_changed)
    IN  [k \in 1..Len(mine) |->
            [cb |-> "csn_changed", card |-> mine[k], csn |-> 0]]

(* C4: one Config Control write (register 0x02) with several bits set       *)
(* applies bit 0, then bit 1, then bit 2: the config_changed callbacks (one *)
(* per logical device of each card that registered one, in card order then  *)
(* device order) all come before the csn_changed callbacks (one per card    *)
(* that registered one, in card order), and the controller, the cards and   *)
(* the callback sequence are those of three separate Config Control writes  *)
(* of the set bits in the order 0x01, 0x02, 0x04.                           *)
C4_ConfigControlOrder ==
    [][DataWrite(2) =>
        LET v == op'.val
            s0 == Entry(0)
        IN  /\ calls' = (IF Bit(v, 0) = 1 THEN ResetCallbacks ELSE <<>>)
                        \o (IF Bit(v, 2) = 1 THEN CsnResetCallbacks ELSE <<>>)
            /\ StateAfter = WriteBit(WriteBit(WriteBit(s0, v, 0), v, 1), v, 2)
       ]_vars

\* the write of 0x07 has reset the devices, returned the cards to
\* WAIT_FOR_KEY and made both kinds of callback, in that order
C4_Witness ==
    /\ op.port = "data" /\ op.reg = 2 /\ op.val = 7
    /\ AllInState(PNP_STATE_WAIT_FOR_KEY)
    /\ Len(calls) = 5
    /\ calls[3].cb = "config_changed" /\ calls[3].card = 2
    /\ calls[4] = [cb |-> "csn_changed", card |-> 1, csn |-> 0]
    /\ calls[5] = [cb |-> "csn_changed", card |-> 2, csn |-> 0]
    /\ read_data_addr = 0

-----------------------------------------------------------------------------
(* Serial isolation                                                        *)

\* bit k of the 64-bit identifier, ROM bytes 0..7, LSB first in each byte
IdBit(rom, k) == Bit(rom[k \div 8], k % 8)

\* one step of the checksum LFSR
LfsrStep(ck, data_bit) ==
    (ck \div 2) + 128 * ((Bit(ck, 1) + Bit(ck, 0) + data_bit) % 2)

\* the checksum of the identifier, computed apart from the engine: the LFSR
\* seeded with 0x6A and stepped once for each of the 64 identifier bits in
\* order; run[lo, hi, ck] feeds bits lo..hi-1 to the LFSR that holds ck
ExpectedChecksum(rom) ==
    LET run[lo \in 0..63, hi \in 1..64, ck \in Byte] ==
            IF hi = lo + 1 THEN LfsrStep(ck, IdBit(rom, lo))
            ELSE run[(lo + hi) \div 2, hi, run[lo, (lo + hi) \div 2, ck]]
    IN  run[0, 64, 106]

\* the last access was an isolation read served by card c
IsoReadBy(c) ==
    /\ op.port = "read"
    /\ op.reg = 1
    /\ c = IsolatingCard

\* C6 (as stated): after Wake[0] has put a card with CSN 0 into ISOLATION,
\* its isolation reads come in pairs; the first read of pair k < 64 returns
\* 0x55 if identifier bit k is 1 and 0x00 otherwise, the second read that
\* value shifted left by one.
C6_IsolationPairs ==
    \A c \in 1..Len(cards) :
        (IsoReadBy(c) /\ cards[c].csn = 0 /\ reads_since_wake[c] >= 1
           /\ (reads_since_wake[c] - 1) \div 2 < 64)
        => LET n == reads_since_wake[c]
               b == IdBit(cards[c].rom, (n - 1) \div 2)
           IN  ret = IF n % 2 = 1 THEN 85 * b ELSE 170 * b

\* C7 (as stated): each time the engine has reached position 64 for a card,
\* ROM byte 8 is the independently computed checksum, and the first read of
\* each of the eight checksum pairs returns the matching bit of it.
C7_ChecksumAtPosition64 ==
    \A c \in 1..Len(cards) :
        LET p == (cards[c].serial_read_pos + 71) % 72
        IN  (IsoReadBy(c) /\ cards[c].serial_read_pair = 1 /\ p >= 64)
            => /\ cards[c].rom[8] = ExpectedChecksum(cards[c].rom)
               /\ ret = 85 * Bit(ExpectedChecksum(cards[c].rom), p - 64)

\* C8 (as stated): from position 0 with the pair flag clear, the position
\* counter is back at 0 after exactly 72 half-reads.
C8_WrapAfter72HalfReads ==
    \A c \in 1..Len(cards) :
        iso_reads[c] = 72 => cards[c].serial_read_pos = 0

\* C8 (amended): the position advances once per pair, on the first read of
\* the pair, so after n half-reads it is ceil(n / 2) mod 72 and the pair
\* flag is n mod 2: the engine is back at position 0 with the pair flag
\* clear after exactly 144 half-reads, 72 full pairs, and not before.
C8_WrapAfter144HalfReads ==
    \A c \in 1..Len(cards) :
        /\ cards[c].serial_read_pos = ((iso_reads[c] + 1) \div 2) % 72
        /\ cards[c].serial_read_pair = iso_reads[c] % 2
        /\ (iso_reads[c] > 0 /\ iso_reads[c] < 144)
             => ~(cards[c].serial_read_pos = 0 /\ cards[c].serial_read_pair = 0)
        /\ iso_reads[c] = 144
             => (cards[c].serial_read_pos = 0 /\ cards[c].serial_read_pair = 0)

\* the first card has served its 144th half-read and is back at position 0
C8_Witness ==
    /\ IsoReadBy(1)
    /\ iso_reads[1] = 144
    /\ cards[1].serial_read_pos = 0
    /\ cards[1].serial_read_pair = 0

-----------------------------------------------------------------------------
(* Logical device registers                                                *)

\* the control register of memory-range slot i: slots 0..3 are the 24-bit
\* ranges, slots 4..7 the 32-bit ranges
SlotControlReg(i) ==
    IF i < 4 THEN Mem24Base(i) + 2 ELSE Mem32Base(i - 4) + 4

\* C9 (as stated): for every logical device and each of its 8 memory-range
\* slots, bit 0 of the slot's control register equals the upper-limit mask
\* bit the parser derived for the slot.
C9_UpperLimitBitGuestImmutable ==
    \A c \in 1..Len(cards) : \A l \in 1..Len(cards[c].lds) : \A i \in 0..7 :
        Reg(cards[c].lds[l].regs, SlotControlReg(i)) % 2
            = Bit(cards[c].lds[l].upperlimit, i)

\* a data-port write made while a logical device is addressed whose card
\* registered config_changed
AddressedDataWrite ==
    /\ op'.port = "data"
    /\ current_ld # NULL_LD
    /\ cards[current_ld_card].config_changed

\* the config_changed callbacks made by the step
ConfigChangedCalls == SelectSeq(calls', LAMBDA e : e.cb = "config_changed")

\* one callback for the addressed device, with the record of its registers
\* after the step
AddressedDeviceCall ==
    [cb |-> "config_changed", card |-> current_ld_card,
     ld |-> cards[current_ld[1]].lds[current_ld[2]].number,
     config |-> ConfigOf(cards'[current_ld[1]].lds[current_ld[2]].regs)]

\* C10 (as stated): while a logical device is addressed and its card
\* registered config_changed, a data-port write to register 0x30 or to any
\* register 0x40..0xFF makes exactly one config_changed callback, for the
\* addressed device with the record of the registers after the write; a
\* write to any other register makes none.
C10_ConfigChangedOnWrite ==
    [][AddressedDataWrite =>
        IF op'.reg \in {48} \cup (64..255)
        THEN ConfigChangedCalls = <<AddressedDeviceCall>>
        ELSE ConfigChangedCalls = <<>>
      ]_vars

\* C10 (amended): the registers that make the one callback are 0x30,
\* 0x40..0xEF and 0xFF, and the callback is then the only one made;
\* 0xF0..0xFE are vendor registers and make no config_changed callback; of
\* the other registers only Config Control (0x02) written with bit 0 set
\* makes config_changed callbacks, one per logical device of every card
\* that registered one, each with the record of the reset registers.
C10_ConfigChangedOnWriteAmended ==
    [][AddressedDataWrite =>
        CASE op'.reg \in {48} \cup (64..239) \cup {255} ->
               calls' = <<AddressedDeviceCall>>
          [] op'.reg = 2 ->
               ConfigChangedCalls =
                   IF Bit(op'.val, 0) = 1 THEN ResetCallbacks ELSE <<>>
          [] OTHER -> ConfigChangedCalls = <<>>
      ]_vars

\* the write of 0xFF to the memory base register 0x40 of the addressed
\* device has made one callback, whose record has the new base
C10_Witness ==
    /\ op.port = "data" /\ op.reg = 64 /\ op.val = 255
    /\ current_ld # NULL_LD
    /\ Len(calls) = 1
    /\ calls[1].cb = "config_changed"
    /\ calls[1].card = current_ld_card
    /\ calls[1].config.mem[0].base = U32(255, 0)

-----------------------------------------------------------------------------
(* Memory windows of the configuration record                              *)

\* a + b in uint32_t arithmetic, on 16-bit halves
Add32(a, b) ==
    U32((a.hi + b.hi + ((a.lo + b.lo) \div 65536)) % 65536,
        (a.lo + b.lo) % 65536)

\* the window (base, size) agrees with the two register fields and the flag:
\* the size is the second field, or with the flag set the one 32-bit value
\* that added to the base gives the second field
WindowOf(w, base, second, flag) ==
    /\ w.base = base
    /\ IF flag = 1 THEN Add32(w.size, base) = second ELSE w.size = second

\* the registers of the addressed logical device
AddressedRegs == cards[current_ld[1]].lds[current_ld[2]].regs

\* the last access was a register write that made the one callback with the
\* record of the addressed device
RecordHandedOver ==
    /\ op.port = "data"
    /\ op.reg >= 64
    /\ current_ld # NULL_LD
    /\ Len(calls) = 1
    /\ calls[1].cb = "config_changed"

(* C11: in the record handed to config_changed, every 24-bit window has    *)
(* base reg[b]<<16 | reg[b+1]<<8 and every 32-bit window the four base     *)
(* bytes, big-endian; the size is the second field assembled the same way  *)
(* when bit 0 of the slot's control register is clear, and (second field - *)
(* base) modulo 2^32 when it is set.                                       *)
C11_WindowTranslation ==
    RecordHandedOver =>
        LET r == AddressedRegs
            c == calls[1].config
        IN  /\ \A i \in 0..3 :
                 LET b == 64 + 8 * i
                 IN  WindowOf(c.mem[i],
                              U32(Reg(r, b), Reg(r, b + 1) * 256),
                              U32(Reg(r, b + 3), Reg(r, b + 4) * 256),
                              Reg(r, b + 2) % 2)
            /\ \A i \in 0..3 :
                 LET b == IF i = 0 THEN 118 ELSE 128 + 16 * i
                 IN  WindowOf(c.mem32[i],
                              U32(Reg(r, b) * 256 + Reg(r, b + 1),
                                  Reg(r, b + 2) * 256 + Reg(r, b + 3)),
                              U32(Reg(r, b + 5) * 256 + Reg(r, b + 6),
                                  Reg(r, b + 7) * 256 + Reg(r, b + 8)),
                              Reg(r, b + 4) % 2)

\* base bytes giving 0x001000 and a second field of 0x002000 with the flag
\* set: the window is base 0x1000, size 0x1000
C11_Witness ==
    /\ RecordHandedOver
    /\ Reg(AddressedRegs, 64) = 0 /\ Reg(AddressedRegs, 65) = 16
    /\ Reg(AddressedRegs, 67) = 0 /\ Reg(AddressedRegs, 68) = 32
    /\ Reg(AddressedRegs, 66) % 2 = 1
    /\ calls[1].config.mem[0] = [base |-> U32(0, 4096), size |-> U32(0, 4096)]

-----------------------------------------------------------------------------
(* Config Control reset                                                    *)

\* every register is zero, except the two DMA registers, which hold the
\* disabled value, and bit 0 of the control register of each memory slot,
\* which is the slot's upper-limit mask bit
DefaultRegs(ld) ==
    \A r \in 0..255 :
        Reg(ld.regs, r) =
            IF r \in {116, 117} THEN ISAPNP_DMA_DISABLED
            ELSE IF \E i \in 0..7 : r = SlotControlReg(i)
            THEN Bit(ld.upperlimit, CHOOSE i \in 0..7 : r = SlotControlReg(i))
            ELSE 0

\* activate = 0, all memory windows and I/O bases zero, both DMA channels
\* disabled
DefaultRecord(c) ==
    /\ c.activate = 0
    /\ \A i \in 0..3 : c.mem[i] = [base |-> U32(0, 0), size |-> U32(0, 0)]
    /\ \A i \in 0..3 : c.mem32[i] = [base |-> U32(0, 0), size |-> U32(0, 0)]
    /\ \A i \in 0..7 : c.io[i].base = 0
    /\ \A i \in 0..1 : c.dma[i].dma = ISAPNP_DMA_DISABLED

\* the logical devices, as <<card, number>>, of the cards that registered
\* config_changed, in card order then device order
DevicesWithCallback ==
    LET lds  == AllLds(cards, 1)
        mine == SelectSeq(lds, LAMBDA ld : cards[ld[1]].config_changed)
    IN  [k \in 1..Len(mine) |->
            <<mine[k][1], cards[mine[k][1]].lds[mine[k][2]].number>>]

(* C12: a Config Control write with bit 0 set leaves every logical device's *)
(* registers at their defaults and makes one config_changed callback per    *)
(* logical device (of the cards that registered one), each with the default *)
(* record; the same write made again at once leaves the same registers and  *)
(* makes the same sequence of callbacks.                                    *)
C12_ResetIdempotent ==
    [][(DataWrite(2) /\ Bit(op'.val, 0) = 1) =>
        LET s1 == StateAfter
            s2 == isapnp_write_data([s1 EXCEPT !.ret = 0, !.calls = <<>>],
                                    op'.val)
        IN  /\ \A c \in 1..Len(cards') : \A l \in 1..Len(cards'[c].lds) :
                  DefaultRegs(cards'[c].lds[l])
            /\ Len(ConfigChangedCalls) = Len(DevicesWithCallback)
            /\ \A k \in 1..Len(ConfigChangedCalls) :
                  /\ <<ConfigChangedCalls[k].card, ConfigChangedCalls[k].ld>>
                         = DevicesWithCallback[k]
                  /\ DefaultRecord(ConfigChangedCalls[k].config)
            /\ s2.cards = s1.cards
            /\ s2.calls = s1.calls
      ]_vars

\* a reset written after the first card was configured and its device
\* addressed: both cards' devices are at their defaults and each got the
\* callback
C12_Witness ==
    /\ op.port = "data" /\ op.reg = 2 /\ op.val = 1
    /\ cards[1].state = PNP_STATE_CONFIG /\ cards[1].csn = 1
    /\ current_ld = NULL_LD
    /\ Len(calls) = 2
    /\ \A k \in 1..2 : calls[k].cb = "config_changed" /\ calls[k].card = k
                       /\ DefaultRecord(calls[k].config)
    /\ \A c \in 1..2 : DefaultRegs(cards[c].lds[1])

-----------------------------------------------------------------------------
(* I/O range check handlers                                                *)

\* the I/O addresses at which the range check handler of a device is
\* registered
RangeCheckPorts(ld) ==
    {k[2] : k \in {x \in DOMAIN io_handlers :
                      x[1] = "isapnp_read_rangecheck" /\ x[3] = ld}}

\* the 8 I/O base addresses configured in registers 0x60..0x6F
IoBases(regs) ==
    {Reg(regs, 96 + 2 * i) * 256 + Reg(regs, 96 + 2 * i + 1) : i \in 0..7}

\* C13 (as stated): for every logical device, its range check handler is
\* registered at exactly its 8 configured I/O base addresses when bit 1 of
\* its register 0x31 is set, and nowhere when the bit is clear.
C13_RangeCheckHandlersFollowBases ==
    \A c \in 1..Len(cards) : \A l \in 1..Len(cards[c].lds) :
        RangeCheckPorts(<<c, l>>) =
            IF Bit(Reg(cards[c].lds[l].regs, 49), 1) = 1
            THEN IoBases(cards[c].lds[l].regs)
            ELSE {}

-----------------------------------------------------------------------------
(* The read-data port                                                      *)

\* the registrations of isapnp_read_data in the handler table
ReadDataHandlers ==
    {k \in DOMAIN io_handlers : k[1] = "isapnp_read_data"}

\* the port is disabled with no handler, or is an address in 0x203..0x3FF
\* with both low bits set and the one handler is registered once, there
ReadPortValid ==
    IF read_data_addr = 0 THEN ReadDataHandlers = {}
    ELSE /\ read_data_addr \in 515..1023
         /\ read_data_addr % 4 = 3
         /\ ReadDataHandlers = {ReadDataHandler(read_data_addr)}
         /\ io_handlers[ReadDataHandler(read_data_addr)] = 1

(* C14: a data-port write of v with register index 0x00 sets the read-data  *)
(* port address to (v << 2) | 3 when that lies in 0x203..0x3FF and to 0      *)
(* otherwise; in every state the address is 0 with no read-data handler, or  *)
(* a value in 0x203..0x3FF with both low bits set and exactly one read-data  *)
(* handler, registered at that address.                                      *)
C14_ReadPort ==
    /\ []ReadPortValid
    /\ [][DataWrite(0) =>
            read_data_addr' = IF op'.val * 4 + 3 \in 515..1023
                              THEN op'.val * 4 + 3 ELSE 0
         ]_vars

\* the write of 0xC8 has set the port to 0x323, with the one handler there
C14_Witness ==
    /\ op.port = "data" /\ op.reg = 0 /\ op.val = 200
    /\ read_data_addr = 803
    /\ io_handlers = (ReadDataHandler(803) :> 1)

-----------------------------------------------------------------------------
(* Select Logical Device                                                   *)

\* the positions in card c of the logical devices numbered n
DevicesNumbered(c, n) ==
    {l \in 1..Len(cards[c].lds) : cards[c].lds[l].number = n}

(* C15: a data-port write of n with register index 0x07 acts on the first   *)
(* card in list order that is in CONFIG.  If that card has a logical device *)
(* numbered n, the addressed pair becomes that card and that device; if it  *)
(* has none, fatal() is called; if no card is in CONFIG, nothing changes    *)
(* and the addressed pair stays as it was.                                  *)
C15_SelectLogicalDevice ==
    [][DataWrite(7) =>
        LET c == FirstInState(cards, PNP_STATE_CONFIG)
        IN  /\ cards' = cards
            /\ calls' = <<>>
            /\ IF c = NULL
               THEN /\ UNCHANGED <<current_ld_card, current_ld>>
                    /\ ~fatal'
               ELSE IF DevicesNumbered(c, op'.val) # {}
               THEN /\ current_ld_card' = c
                    /\ \E l \in DevicesNumbered(c, op'.val) :
                          current_ld' = <<c, l>>
                    /\ Cardinality(DevicesNumbered(c, op'.val)) = 1
                    /\ ~fatal'
               ELSE fatal'
      ]_vars

\* the first card is not in CONFIG and the second is: the write has
\* addressed the second card's device 0, after the first card's device 1
\* was addressed
C15_Witness ==
    /\ op.port = "data" /\ op.reg = 7 /\ op.val = 0
    /\ cards[1].state # PNP_STATE_CONFIG
    /\ cards[2].state = PNP_STATE_CONFIG
    /\ current_ld_card = 2
    /\ current_ld = <<2, 1>>
    /\ ~fatal

-----------------------------------------------------------------------------
(* Accesses without their context                                          *)

\* a step leaves the controller and every card as they were
NoOp ==
    UNCHANGED <<reg, key_pos, read_data_addr, isolated_card, current_ld_card,
                current_ld, cards, io_handlers>>

NoConfigCard == FirstInState(cards, PNP_STATE_CONFIG) = NULL
NoIsolationCard == FirstInState(cards, PNP_STATE_ISOLATION) = NULL
NoDevice == current_ld = NULL_LD

\* a read of the read-data port with the given register index
DataRead(r) == op'.port = "read" /\ op'.reg = r

(* C16: an access that lacks its context is a no-op and not fatal.  With no *)
(* card in CONFIG, reads of 0x05 and 0x06 return 0x00 and reads of 0x04 and *)
(* 0x20..0x2F return 0xFF; with no addressed logical device, a read of 0x07 *)
(* returns 0x00, reads of 0x30 and above return 0xFF, and writes to 0x30,   *)
(* 0x31, 0x38..0x3F and 0x40..0xFF change nothing and make no callback;     *)
(* with no card in ISOLATION a read of 0x01 returns 0xFF.                   *)
C16_ContextlessAccess ==
    [][/\ (NoConfigCard /\ \E r \in {5, 6} : DataRead(r))
            => ret' = 0 /\ NoOp /\ calls' = <<>> /\ ~fatal'
       /\ (NoConfigCard /\ \E r \in {4} \cup (32..47) : DataRead(r))
            => ret' = 255 /\ NoOp /\ calls' = <<>> /\ ~fatal'
       /\ (NoDevice /\ DataRead(7))
            => ret' = 0 /\ NoOp /\ calls' = <<>> /\ ~fatal'
       /\ (NoDevice /\ \E r \in 48..255 : DataRead(r))
            => ret' = 255 /\ NoOp /\ calls' = <<>> /\ ~fatal'
       /\ (NoDevice /\ \E r \in {48, 49} \cup (56..63) \cup (64..255) :
                          DataWrite(r))
            => NoOp /\ calls' = <<>> /\ ~fatal'
       /\ (NoIsolationCard /\ DataRead(1))
            => ret' = 255 /\ NoOp /\ calls' = <<>> /\ ~fatal'
      ]_vars

-----------------------------------------------------------------------------
(* Dependent functions in the ROM parser                                   *)

Is24(x) == x \in {"m0", "m4"}
Is32(x) == x \in {"w0", "w4"}
UsesUpperLimit(x) == x \in {"m4", "w4"}

Count24(items) == Cardinality({i \in 1..Len(items) : Is24(items[i])})
Count32(items) == Cardinality({i \in 1..Len(items) : Is32(items[i])})

\* the slots a run of descriptors takes when counted from (base24, base32):
\* the j-th 24-bit descriptor takes slot base24 + j, the j-th 32-bit
\* descriptor slot base32 + j (j from 0)
SlotsFrom(items, base24, base32) ==
    [i \in 1..Len(items) |->
        [wide |-> Is32(items[i]),
         slot |-> IF Is24(items[i])
                  THEN base24 + Count24(SubSeq(items, 1, i - 1))
                  ELSE base32 + Count32(SubSeq(items, 1, i - 1)),
         limit |-> UsesUpperLimit(items[i])]]

RECURSIVE AlternativeSlots(_, _, _)
AlternativeSlots(alts, base24, base32) ==
    IF alts = <<>> THEN <<>>
    ELSE SlotsFrom(Head(alts), base24, base32)
            \o AlternativeSlots(Tail(alts), base24, base32)

\* the slot of every descriptor of device d, in ROM order: the descriptors
\* before the group count from 0, every alternative counts from the restore
\* point, the counters at the first start item
DeviceSlots(d) ==
    SlotsFrom(d.pre, 0, 0)
        \o AlternativeSlots(d.alts, Count24(d.pre), Count32(d.pre))

NeedsAtMost4Slots(d) ==
    \A i \in 1..Len(DeviceSlots(d)) : DeviceSlots(d)[i].slot <= 3

\* the upper-limit bit of a slot is that of the last descriptor assigned to it
LastAssigned(d, wide, k) ==
    LET A == DeviceSlots(d)
        S == {i \in 1..Len(A) : A[i].wide = wide /\ A[i].slot = k}
    IN  IF S = {} THEN 0
        ELSE IF A[CHOOSE i \in S : \A j \in S : j <= i].limit THEN 1 ELSE 0

RECURSIVE SumOver(_, _)
SumOver(f, S) ==
    IF S = {} THEN 0
    ELSE LET x == CHOOSE y \in S : TRUE IN f[x] + SumOver(f, S \ {x})

ExpectedUpperLimit(d) ==
    SumOver([k \in 0..7 |->
                IF k < 4 THEN LastAssigned(d, FALSE, k) * 2 ^ k
                ELSE LastAssigned(d, TRUE, k - 4) * 2 ^ k], 0..7)

(* C17: within one logical device every dependent-function alternative      *)
(* assigns its memory descriptors to slots counted from the restore point,  *)
(* the 24-bit and 32-bit counters at the first start item of the group.  A  *)
(* device whose alternatives each need at most 4 slots parses without the   *)
(* overflow error however many alternatives it has, and the upper-limit bit *)
(* recorded for a slot is that of the last descriptor assigned to it.       *)
C17_DependentFunctionSlots ==
    op.port = "add" =>
        LET b    == op.val
            card == cards[Len(cards)]
        IN  (\A d \in 1..Len(b) : NeedsAtMost4Slots(b[d])) =>
                /\ ~fatal
                /\ card.parse_err = ""
                /\ Len(card.lds) = Len(b)
                /\ \A d \in 1..Len(b) :
                      /\ card.lds[d].number = d - 1
                      /\ card.lds[d].upperlimit = ExpectedUpperLimit(b[d])

-----------------------------------------------------------------------------
(* WAIT_FOR_KEY is a state of all cards or of none                         *)

AnyInState(st) == \E c \in 1..Len(cards) : cards[c].state = st

(* C18: with all cards attached before the first port access, either every *)
(* card is in WAIT_FOR_KEY or none is, so the test of the first card is the *)
(* test of any card; an address-port write made while a card is in          *)
(* WAIT_FOR_KEY never changes the register index; and while the cards are   *)
(* in WAIT_FOR_KEY the register index is 0x00 or 0x02.                      *)
C18_WaitForKeyAllOrNone ==
    /\ [](/\ AnyInState(PNP_STATE_WAIT_FOR_KEY)
                => AllInState(PNP_STATE_WAIT_FOR_KEY)
          /\ Waiting <=> AnyInState(PNP_STATE_WAIT_FOR_KEY)
          /\ AnyInState(PNP_STATE_WAIT_FOR_KEY) => reg \in {0, 2})
    /\ [][(op'.port = "addr" /\ AnyInState(PNP_STATE_WAIT_FOR_KEY))
            => reg' = reg]_vars

\* the cards were configured and returned to WAIT_FOR_KEY with register index
\* 0x02; the write of 0x03 to the address port has left the index alone
C18_Witness ==
    /\ op.port = "addr" /\ op.val = 3
    /\ reg = 2
    /\ AllInState(PNP_STATE_WAIT_FOR_KEY)
    /\ cards[1].csn = 1
    /\ cards[2].csn = 0

-----------------------------------------------------------------------------
(* The ROM read cursor                                                     *)

RomCursorInBounds ==
    \A c \in 1..Len(cards) : cards[c].rom_pos <= cards[c].rom_size

\* the read of register 0x04 while a card is in CONFIG
ResourceDataRead ==
    LET c == FirstInState(cards, PNP_STATE_CONFIG)
    IN  IF cards[c].rom_pos < cards[c].rom_size
        THEN /\ ret' = cards[c].rom[cards[c].rom_pos]
             /\ cards'[c].rom_pos = cards[c].rom_pos + 1
        ELSE /\ ret' = 255
             /\ cards'[c].rom_pos = cards[c].rom_pos

\* the second half-read of a pair, served by card c, with the position
\* counter wrapped to 0
WrappedSecondHalf(c) ==
    /\ DataRead(1)
    /\ c = IsolatingCard
    /\ cards[c].serial_read_pair = 1
    /\ cards[c].serial_read_pos = 0

(* C19: for a card whose ROM is at least 9 bytes long the ROM read cursor   *)
(* is never above the ROM length.  A read of register 0x04 while a card is  *)
(* in CONFIG returns the ROM byte at the cursor of the first card in CONFIG *)
(* and advances the cursor by one when the cursor is below the ROM length,  *)
(* and returns 0xFF and leaves the cursor otherwise.  The cursor is changed *)
(* otherwise only by Wake with a matching CSN, to 0, and by the second      *)
(* half-read of the isolation pair at which the position counter has        *)
(* wrapped to 0, to 9.                                                      *)
C19_RomCursor ==
    /\ []RomCursorInBounds
    /\ [][(DataRead(4) /\ ~NoConfigCard) => ResourceDataRead]_vars
    /\ [][\A c \in 1..Len(cards) :
            /\ (DataWrite(3) /\ cards[c].csn = op'.val)
                  => cards'[c].rom_pos = 0
            /\ WrappedSecondHalf(c) => cards'[c].rom_pos = 9
            /\ cards'[c].rom_pos # cards[c].rom_pos =>
                  \/ DataRead(4) /\ c = FirstInState(cards, PNP_STATE_CONFIG)
                  \/ DataWrite(3) /\ cards[c].csn = op'.val
                  \/ WrappedSecondHalf(c)
         ]_vars

\* after a full pass of isolation reads set the cursor to 9, the first card
\* was configured and read to the end of its 11-byte ROM; the read at the
\* end has returned 0xFF and left the cursor at 11
C19_Witness ==
    /\ op.port = "read" /\ op.reg = 4
    /\ ret = 255
    /\ iso_reads[1] >= RomPassReads
    /\ cards[1].state = PNP_STATE_CONFIG
    /\ cards[1].rom_pos = 11
    /\ cards[1].rom_size = 11

-----------------------------------------------------------------------------
(* The active-isolation reference                                          *)

(* C20: if the controller's active-isolation reference is not empty, the    *)
(* card it refers to is in ISOLATION; so Set-CSN never assigns a CSN to, or *)
(* moves to CONFIG, a card that is in SLEEP or WAIT_FOR_KEY.                *)
C20_IsolationReference ==
    /\ [](isolated_card # NULL
            => cards[isolated_card].state = PNP_STATE_ISOLATION)
    /\ [][DataWrite(6) =>
            \A c \in 1..Len(cards) :
                cards[c].state \in {PNP_STATE_SLEEP, PNP_STATE_WAIT_FOR_KEY}
                    => cards'[c] = cards[c]
         ]_vars

-----------------------------------------------------------------------------
(* Cards in CONFIG                                                         *)

CardsInState(st) == {c \in 1..Len(cards) : cards[c].state = st}

(* C21: with two or more cards attached, at most one card is in CONFIG, so  *)
(* the scan for the first card in CONFIG finds the only configured card.    *)
C21_AtMostOneConfigCard ==
    Len(cards) >= 2 => Cardinality(CardsInState(PNP_STATE_CONFIG)) <= 1

-----------------------------------------------------------------------------
(* The addressed card and logical device                                   *)

\* both references empty, or both set with the device one of the card's
AddressedPairConsistent ==
    IF current_ld = NULL_LD THEN current_ld_card = NULL
    ELSE /\ current_ld_card \in 1..Len(cards)
         /\ current_ld[1] = current_ld_card
         /\ current_ld[2] \in 1..Len(cards[current_ld_card].lds)

LdRegisterIndices == {48, 49} \cup (64..255)

(* C22: the addressed card and the addressed logical device are both empty  *)
(* or both set, the device being one of that card's; and a data-port write  *)
(* to register 0x30, 0x31 or 0x40..0xFF changes a logical device's          *)
(* registers only when the card that owns the device is in CONFIG.          *)
C22_AddressedDevice ==
    /\ []AddressedPairConsistent
    /\ [][(op'.port = "data" /\ op'.reg \in LdRegisterIndices) =>
            \A c \in 1..Len(cards) : \A l \in 1..Len(cards[c].lds) :
                cards'[c].lds[l].regs # cards[c].lds[l].regs
                    => cards[c].state = PNP_STATE_CONFIG
         ]_vars

-----------------------------------------------------------------------------
(* Cards in ISOLATION                                                      *)

(* C23: with port-driven commands only, every card in ISOLATION has CSN 0,  *)
(* and a card enters ISOLATION only from SLEEP and only through Wake[0].    *)
C23_IsolationHasCsnZero ==
    /\ [](\A c \in 1..Len(cards) :
            cards[c].state = PNP_STATE_ISOLATION => cards[c].csn = 0)
    /\ [][\A c \in 1..Len(cards) :
            (cards[c].state # PNP_STATE_ISOLATION
                /\ cards'[c].state = PNP_STATE_ISOLATION)
             => /\ cards[c].state = PNP_STATE_SLEEP
                /\ DataWrite(3)
                /\ op'.val = 0
         ]_vars

\* the first card has CSN 1 and is in CONFIG; Wake[0] has put it to SLEEP
\* and taken the second card, with CSN 0, from SLEEP to ISOLATION
C23_Witness ==
    /\ op.port = "data" /\ op.reg = 3 /\ op.val = 0
    /\ cards[1].csn = 1
    /\ cards[1].state = PNP_STATE_SLEEP
    /\ cards[2].csn = 0
    /\ cards[2].state = PNP_STATE_ISOLATION
    /\ reads_since_wake[2] = 0
    /\ iso_reads[1] = 1

=============================================================================
